---- MODULE Spec2Model ----
(***************************************************************************)
(* Model of the Metanet notification backend: API-key authorization, the   *)
(* two subscription registration handlers, revocation, the permission      *)
(* query, the two send handlers and the notification status lookup, over   *)
(* a Firestore-like document store.                                        *)
(*                                                                         *)
(* Strings that take part in key derivation (user ids, origins, user keys) *)
(* are sequences of character codes, so that concatenation and base64 are  *)
(* computed as the code computes them.  Firestore documents are records    *)
(* whose set of fields varies, as JavaScript objects do.                   *)
(***************************************************************************)
EXTENDS Integers, Sequences, FiniteSets, TLC

\* ------------------------------------------------------------------ bounds
\* Date.now() starts at 1 and advances with every request; a behaviour of
\* Spec ends when the clock shows MaxTime, one of SpecDeep at MaxDeep, one
\* of SpecBurst at MaxBurst.
MaxTime == 3
MaxDeep == 4
MaxBurst == 2

\* ----------------------------------------------------------------- strings
\* "a", "a:b"
UserIds == { <<97>>, <<97, 58, 98>> }
\* "c", "b:c"
OriginA == <<99>>
OriginB == <<98, 58, 99>>
TenantOrigins == { OriginA, OriginB }
\* "localhost:3000", the origin of the development tenant  (auth.ts:32)
DevOrigin == <<108, 111, 99, 97, 108, 104, 111, 115, 116, 58, 51, 48, 48, 48>>
\* "constructor", a property every plain JavaScript object inherits
Constructor == <<99, 111, 110, 115, 116, 114, 117, 99, 116, 111, 114>>
\* The empty string / an undefined value of a string-valued input.
None == <<>>

\* Properties found on Object.prototype, which obj[key] on a plain object
\* returns (truthy) although the object has no such own field.
ObjectPrototypeKeys == { Constructor }

\* ---------------------------------------------------------- key derivation
\* One character of the base64 alphabet, by its 6-bit index.
B64Char(i) ==
  IF i < 26 THEN 65 + i
  ELSE IF i < 52 THEN 97 + (i - 26)
  ELSE IF i < 62 THEN 48 + (i - 52)
  ELSE IF i = 62 THEN 43 ELSE 47

\* Buffer.from(s).toString('base64') on a string of one-byte characters.
RECURSIVE Base64(_)
Base64(b) ==
  IF Len(b) = 0 THEN <<>>
  ELSE IF Len(b) = 1 THEN
    << B64Char(b[1] \div 4), B64Char((b[1] % 4) * 16), 61, 61 >>
  ELSE IF Len(b) = 2 THEN
    << B64Char(b[1] \div 4), B64Char((b[1] % 4) * 16 + (b[2] \div 16)),
       B64Char((b[2] % 16) * 4), 61 >>
  ELSE
    << B64Char(b[1] \div 4), B64Char((b[1] % 4) * 16 + (b[2] \div 16)),
       B64Char((b[2] % 16) * 4 + (b[3] \div 64)), B64Char(b[3] % 64) >>
    \o Base64(SubSeq(b, 4, Len(b)))

\* registerSubscription / sendPushNotification:
\*   userId + '-' + Buffer.from(origin).toString('base64')
ControllerUserKey(userId, origin) ==
  [scheme |-> "plain", str |-> userId \o <<45>> \o Base64(origin)]

\* generateUserKey: the string that is hashed, `${userId}:${origin}`
Combined(userId, origin) == userId \o <<58>> \o origin

\* A derivation that leaves the origin out of the hashed string.
generateUserKeyWithoutOrigin(userId, origin) ==
  [scheme |-> "sha256", str |-> userId]

\* generateUserKey: sha256(combined).digest('hex').substring(0, 32).  The
\* digest is modelled as collision free: two digests are equal exactly when
\* the hashed strings are.  A digest (32 hex characters) never equals a
\* controller key, which contains '-'.
generateUserKey(userId, origin) ==
  [scheme |-> "sha256", str |-> Combined(userId, origin)]

\* ------------------------------------------------------------ configuration
\* API keys as presented in the Authorization header.
KeyA == "AAAAAAAAAAAAAAAAAAAAAAAAAAAAAAAA"
KeyB == "BBBBBBBBBBBBBBBBBBBBBBBBBBBBBBBB"
KeyExp == "EEEEEEEEEEEEEEEEEEEEEEEEEEEEEEEE"
KeyOff == "FFFFFFFFFFFFFFFFFFFFFFFFFFFFFFFF"
KeyUnknown == "UUUUUUUUUUUUUUUUUUUUUUUUUUUUUUUU"
KeyShort == "short-key"
DevKey == "dev-test-api-key-12345"

\* The apiKeys collection (README "API Keys Collection"); it is written by
\* an administrative script only, never by the server.
apiKeys ==
  [k \in {KeyA, KeyB, KeyExp, KeyOff} |->
     CASE k = KeyA -> [origin |-> OriginA, active |-> TRUE]
       [] k = KeyB -> [origin |-> OriginB, active |-> TRUE]
       [] k = KeyExp -> [origin |-> OriginA, active |-> TRUE, expiresAt |-> 1]
       [] k = KeyOff -> [origin |-> OriginB, active |-> FALSE, expiresAt |-> 1]]

\* The Authorization header: absent, or "Bearer " followed by a key.
NoAuth == [scheme |-> "none", key |-> ""]
Bearer(k) == [scheme |-> "Bearer", key |-> k]
Creds ==
  {NoAuth} \cup
  {Bearer(k) : k \in {KeyA, KeyB, KeyExp, KeyOff, KeyUnknown, KeyShort, DevKey}}

\* A store call of the middleware that throws.
AuthFaults == {"none", "keyRead", "usage"}

\* Delivery targets a client can present.
FcmPrefix == "https://fcm.googleapis.com/fcm/send/"
FcmEndpoint == [prefix |-> FcmPrefix, tail |-> "tok2"]
OtherEndpoint == [prefix |-> "https://push.example/", tail |-> "e1"]
FullKeys == [p256dh |-> "p", auth |-> "s"]

\* A user key under which nothing is ever registered ("x").
UnknownUserKey == [scheme |-> "plain", str |-> <<120>>]

\* The values of process.env.NODE_ENV: set to production, set to
\* development, or not set at all (undefined).
Unset == ""
NodeEnvs == {"production", "development", Unset}

VARIABLES
  nodeEnv,        \* process.env.NODE_ENV
  now,            \* Date.now(); it advances with every request
  subscriptions,  \* collection "subscriptions": userKey -> document
  notifications,  \* collection "notifications": messageId -> document
  events,         \* collection "events", in the order added
  pushed,         \* messages handed to a delivery provider, in order
  last,           \* the request handled last and the response it got
  horizon,        \* the clock value at which the behaviour ends
  hits,           \* the limiter's store: limiter key -> requests counted in
                  \* the current window, told apart by endpoint class
  burst,          \* TRUE: all requests fall into one window of the limiter;
                  \* FALSE: consecutive requests are more than a window apart
  inflight,       \* registrations being handled concurrently: request number
                  \* -> its inputs, the await it stands at, the document read
  \* history, not read by any handler:
  issued,         \* (userId, origin, userKey) of every key a registration derived
  registrar,      \* userKey -> origin of the tenant whose registration wrote it last
  revoked         \* (userKey, origin, status) of the DELETEs that wrote the
                  \* record since it was registered last

vars ==
  << nodeEnv, now, subscriptions, notifications, events, pushed, last,
     horizon, hits, burst, inflight, issued, registrar, revoked >>

\* ------------------------------------------------------------ authorization
\* A middleware that does not look at expiresAt.
validateApiKeyWithoutExpiry(cred, fault) ==
  LET reject(st, why) ==
        [next |-> FALSE, status |-> st, reason |-> why, origin |-> None,
         environment |-> "", usage |-> FALSE, cred |-> cred]
  IN
  IF cred.scheme # "Bearer" THEN reject(401, "missing")
  ELSE IF nodeEnv # "production" /\ cred.key = DevKey THEN
    [next |-> TRUE, status |-> 0, reason |-> "dev", origin |-> DevOrigin,
     environment |-> "development", usage |-> FALSE, cred |-> cred]
  ELSE IF Len(cred.key) < 32 THEN reject(401, "malformed")
  ELSE IF fault = "keyRead" THEN reject(500, "keyReadError")
  ELSE IF cred.key \notin DOMAIN apiKeys THEN reject(401, "invalid")
  ELSE IF ~apiKeys[cred.key].active THEN reject(401, "deactivated")
  ELSE IF fault = "usage" THEN reject(500, "usageError")
  ELSE
    [next |-> TRUE, status |-> 0, reason |-> "ok",
     origin |-> apiKeys[cred.key].origin, environment |-> "production",
     usage |-> TRUE, cred |-> cred]

\* validateApiKey: next is TRUE when the request is passed on to its handler;
\* otherwise status is the response sent by the middleware.  usage is TRUE
\* when a document was added to the apiUsage collection.
validateApiKey(cred, fault) ==
  LET reject(st, why) ==
        [next |-> FALSE, status |-> st, reason |-> why, origin |-> None,
         environment |-> "", usage |-> FALSE, cred |-> cred]
  IN
  IF cred.scheme # "Bearer" THEN reject(401, "missing")
  ELSE IF nodeEnv # "production" /\ cred.key = DevKey THEN
    [next |-> TRUE, status |-> 0, reason |-> "dev", origin |-> DevOrigin,
     environment |-> "development", usage |-> FALSE, cred |-> cred]
  ELSE IF Len(cred.key) < 32 THEN reject(401, "malformed")
  ELSE IF fault = "keyRead" THEN reject(500, "keyReadError")
  ELSE IF cred.key \notin DOMAIN apiKeys THEN reject(401, "invalid")
  ELSE IF ~apiKeys[cred.key].active THEN reject(401, "deactivated")
  ELSE IF "expiresAt" \in DOMAIN apiKeys[cred.key]
          /\ apiKeys[cred.key].expiresAt # 0
          /\ now > apiKeys[cred.key].expiresAt THEN reject(401, "expired")
  ELSE IF fault = "usage" THEN reject(500, "usageError")
  ELSE
    [next |-> TRUE, status |-> 0, reason |-> "ok",
     origin |-> apiKeys[cred.key].origin, environment |-> "production",
     usage |-> TRUE, cred |-> cred]

\* What is recorded of a request: its route, the Authorization header it
\* carried (cred), the outcome of the middleware,
\* the origin the middleware attached (tenant), the response status (0: no
\* response was sent), the user key and the origin the handler worked with,
\* the response body, and the delivery provider it called.
Exchange(route, a, status, userKey, origin, body, provider) ==
  [route |-> route, cred |-> a.cred, auth |-> a.reason, usage |-> a.usage,
   tenant |-> a.origin,
   status |-> status, userKey |-> userKey, origin |-> origin, body |-> body,
   provider |-> provider]

\* The credentials the middleware passes on to the handler (a store call of
\* the middleware that throws ends the request in the middleware).
Accepted == {cred \in Creds : validateApiKey(cred, "none").next}

\* docRef.set(data): the document is replaced as a whole.
SetDoc(coll, key, data) ==
  [k \in DOMAIN coll \cup {key} |-> IF k = key THEN data ELSE coll[k]]

\* obj[key] of a plain JavaScript object is truthy when key is an own field
\* (the stored values are objects) or a property inherited from
\* Object.prototype.
JsTruthyEntry(obj, key) == key \in DOMAIN obj \/ key \in ObjectPrototypeKeys

Start ==
  /\ nodeEnv \in NodeEnvs
  /\ now = 1
  /\ subscriptions = <<>>
  /\ notifications = <<>>
  /\ events = <<>>
  /\ pushed = <<>>
  /\ issued = {}
  /\ registrar = <<>>
  /\ revoked = {}
  /\ last = [route |-> "none", cred |-> NoAuth, auth |-> "", usage |-> FALSE,
             tenant |-> None,
             status |-> 0, userKey |-> UnknownUserKey, origin |-> None,
             body |-> <<>>, provider |-> "none"]

\* The server has just started, or has been idle for a window: the limiter
\* holds no counter.
Init == Start /\ horizon = MaxTime /\ burst = FALSE /\ hits = <<>> /\ inflight = <<>>
InitDeep == Start /\ horizon = MaxDeep /\ burst = FALSE /\ hits = <<>> /\ inflight = <<>>

\* Every request takes one tick of the clock, and is handled from its first
\* line to its response before the next one is taken up.
Tick ==
  /\ now < horizon
  /\ now' = now + 1
  /\ UNCHANGED << nodeEnv, horizon, burst, inflight >>

\* ------------------------------------------------------------ rate limiting
\* The endpoint classes the limiter tells apart by req.path.
Classes == {"notifications", "subscriptions", "general"}

\* The class of the path of each route: '/api/v1/notifications/send' includes
\* '/notifications/send'; every path under '/api/v1/subscriptions' includes
\* '/subscriptions'; '/api/v1/notifications/status/:messageId' includes
\* neither.
ClassOf(route) ==
  CASE route = "notifSend" -> "notifications"
    [] route \in {"register", "registerInline", "revoke",
                  "permissions", "subsSend"} -> "subscriptions"
    [] OTHER -> "general"

\* max: the limit that applies to a request, chosen by its path.
max(class) ==
  CASE class = "notifications" -> 100
    [] class = "subscriptions" -> 50
    [] OTHER -> 200

\* keyGenerator: `api:${apiKey}` for a Bearer header, otherwise req.ip (all
\* clients of the model share one address).
ClientIp == "10.0.0.1"
keyGenerator(cred) ==
  IF cred.scheme = "Bearer" THEN << "api", cred.key >> ELSE << "ip", ClientIp >>

\* The requests of one class counted under a limiter key.
Counted(store, key, class) == IF key \in DOMAIN store THEN store[key][class] ELSE 0

\* totalHits: the one counter the limiter's store keeps per key.
totalHits(store, key) ==
  Counted(store, key, "notifications") + Counted(store, key, "subscriptions")
    + Counted(store, key, "general")

\* store.increment(key): the counter of the key goes up by one, for every
\* request, whatever is decided about it afterwards.  A counter whose window
\* has run out is dropped.
Incremented(key, class) ==
  LET kept == IF burst THEN hits ELSE <<>> IN
  [k \in DOMAIN kept \cup {key} |->
     [c \in Classes |->
        (IF k \in DOMAIN kept THEN kept[k][c] ELSE 0)
          + (IF k = key /\ c = class THEN 1 ELSE 0)]]

\* rateLimitMiddleware, for the request recorded in last': it is counted, and
\* passed on when totalHits does not exceed max(req).
Passed(class) ==
  /\ hits' = Incremented(keyGenerator(last'.cred), class)
  /\ totalHits(hits', keyGenerator(last'.cred)) <= max(class)

\* A limiter mounted behind validateApiKey: the key is looked up and its use
\* recorded before the request is turned away.
RateLimitedAfterAuth ==
  /\ Tick
  /\ \E cred \in Creds, class \in Classes :
       LET a == validateApiKey(cred, "none") IN
       /\ hits' = Incremented(keyGenerator(cred), class)
       /\ totalHits(hits', keyGenerator(cred)) > max(class)
       /\ last' = [route |-> "limited", cred |-> cred, auth |-> a.reason,
                   usage |-> a.usage, tenant |-> a.origin,
                   status |-> IF a.next THEN 429 ELSE a.status,
                   userKey |-> UnknownUserKey, origin |-> None, body |-> <<>>,
                   provider |-> "none", class |-> class]
  /\ UNCHANGED << subscriptions, notifications, events, pushed, issued, registrar, revoked >>

\* rateLimitMiddleware answers 429: the request is counted and goes no
\* further, neither to validateApiKey nor to a handler.
RateLimited ==
  /\ Tick
  /\ \E cred \in Creds, class \in Classes :
       /\ hits' = Incremented(keyGenerator(cred), class)
       /\ totalHits(hits', keyGenerator(cred)) > max(class)
       /\ last' = [route |-> "limited", cred |-> cred, auth |-> "", usage |-> FALSE,
                   tenant |-> None, status |-> 429, userKey |-> UnknownUserKey,
                   origin |-> None, body |-> <<>>, provider |-> "none",
                   class |-> class]
  /\ UNCHANGED << subscriptions, notifications, events, pushed, issued, registrar, revoked >>

\* ------------------------------------------------ a request the middleware ends
\* validateApiKey answers 401 (or 500 when its own store call throws) and the
\* route's handler does not run, whatever the route.
Unauthorized ==
  /\ Tick
  /\ \E cred \in Creds, af \in AuthFaults :
       LET a == validateApiKey(cred, af) IN
       /\ ~a.next
       /\ last' = Exchange("rejected", a, a.status, UnknownUserKey, None, <<>>, "none")
  /\ UNCHANGED << subscriptions, notifications, events, pushed, issued, registrar, revoked >>
  /\ \E class \in Classes : Passed(class)

\* ------------------------------------- POST /subscriptions/register (controller)
WebInputs ==
  { <<>>, [endpoint |-> OtherEndpoint, keys |-> FullKeys],
    [endpoint |-> OtherEndpoint, keys |-> [p256dh |-> "p"]] }

\* endpoint && keys?.auth && keys?.p256dh
WebComplete(web) ==
  /\ "endpoint" \in DOMAIN web
  /\ "keys" \in DOMAIN web
  /\ {"auth", "p256dh"} \subseteq DOMAIN web.keys

\* The document registerSubscription writes.
ControllerData(userId, origin, platform, fcmToken, web) ==
  LET data == [userId |-> userId, origin |-> origin,
               platform |-> IF platform = "" THEN "unknown" ELSE platform,
               timestamp |-> now]
  IN IF fcmToken # "" THEN data @@ [fcmToken |-> fcmToken]
     ELSE data @@ [endpoint |-> web.endpoint, keys |-> web.keys]

RegisterController ==
  /\ Tick
  /\ \E cred \in Accepted :
       LET a == validateApiKey(cred, "none") IN
         \E userId \in UserIds \cup {None}, origin \in TenantOrigins \cup {None} :
           LET userKey == ControllerUserKey(userId, origin) IN
           IF origin = None \/ userId = None THEN
             /\ last' = Exchange("register", a, 400, UnknownUserKey, origin, <<>>, "none")
             /\ UNCHANGED << subscriptions, issued, registrar, revoked >>
           ELSE
             /\ issued' = issued \cup {<< userId, origin, userKey >>}
             /\ \E fcmToken \in {"", "tok1"}, web \in WebInputs :
                  IF fcmToken = "" /\ ~WebComplete(web) THEN
                    /\ last' = Exchange("register", a, 400, userKey, origin, <<>>, "none")
                    /\ UNCHANGED << subscriptions, registrar, revoked >>
                  ELSE
                    \E fault \in {"none", "write"} :
                      IF fault = "write" THEN
                        /\ last' = Exchange("register", a, 500, userKey, origin, <<>>, "none")
                        /\ UNCHANGED << subscriptions, registrar, revoked >>
                      ELSE
                        /\ subscriptions' =
                             SetDoc(subscriptions, userKey,
                                    ControllerData(userId, origin, "", fcmToken, web))
                        /\ registrar' = SetDoc(registrar, userKey, a.origin)
                        /\ revoked' = {r \in revoked : r[1] # userKey}
                        /\ last' = Exchange("register", a, 200, userKey, origin,
                                            [success |-> TRUE, userKey |-> userKey], "none")
  /\ UNCHANGED << notifications, events, pushed >>
  /\ Passed(ClassOf(last'.route))

\* --------------------------------------- POST /subscriptions/register (inline)
\* extractFCMToken: the part of the endpoint after "fcm/send/", "" for null.
extractFCMToken(endpoint) ==
  IF endpoint.prefix = FcmPrefix /\ endpoint.tail # "" THEN endpoint.tail ELSE ""

\* The document the inline handler writes over `existing` (<<>> when the
\* subscription does not exist yet).
InlineData(existing, userKey, userId, origin, endpoint, keys) ==
  [userKey |-> userKey, userId |-> userId, origin |-> origin,
   fcmToken |-> extractFCMToken(endpoint), endpoint |-> endpoint, keys |-> keys,
   deviceInfo |-> <<>>,
   permissions |->
     LET old == IF "permissions" \in DOMAIN existing THEN existing.permissions ELSE <<>>
     IN [o \in DOMAIN old \cup {origin} |->
           IF o = origin THEN [granted |-> TRUE, timestamp |-> now] ELSE old[o]],
   createdAt |->
     IF "createdAt" \in DOMAIN existing /\ existing.createdAt # 0
     THEN existing.createdAt ELSE now,
   updatedAt |-> now,
   active |-> TRUE]

RegisterInline ==
  /\ Tick
  /\ \E cred \in Accepted :
       LET a == validateApiKey(cred, "none") IN
         \E userId \in UserIds \cup {None}, endpoint \in {FcmEndpoint, OtherEndpoint} :
           LET origin == a.origin
               userKey == generateUserKey(userId, origin)
               existing == IF userKey \in DOMAIN subscriptions
                           THEN subscriptions[userKey] ELSE <<>>
               data == InlineData(existing, userKey, userId, origin, endpoint, FullKeys)
               answer(st, body) ==
                 last' = Exchange("registerInline", a, st, userKey, origin, body, "none")
           IN
           IF userId = None THEN
             /\ last' = Exchange("registerInline", a, 400, UnknownUserKey, origin, <<>>, "none")
             /\ UNCHANGED << subscriptions, events, issued, registrar, revoked >>
           ELSE IF extractFCMToken(endpoint) = "" THEN
             /\ last' = Exchange("registerInline", a, 400, UnknownUserKey, origin, <<>>, "none")
             /\ UNCHANGED << subscriptions, events, issued, registrar, revoked >>
           ELSE
             /\ issued' = issued \cup {<< userId, origin, userKey >>}
             /\ IF nodeEnv # "production" /\ a.environment = "development" THEN
                  /\ answer(201, [success |-> TRUE, userKey |-> userKey])
                  /\ UNCHANGED << subscriptions, events, registrar, revoked >>
                ELSE
                  \E fault \in {"none", "read", "write", "event"} :
                    IF fault \in {"read", "write"} THEN
                      /\ answer(500, <<>>)
                      /\ UNCHANGED << subscriptions, events, registrar, revoked >>
                    ELSE
                      /\ subscriptions' = SetDoc(subscriptions, userKey, data)
                      /\ registrar' = SetDoc(registrar, userKey, a.origin)
                      /\ revoked' = {r \in revoked : r[1] # userKey}
                      /\ IF fault = "event" THEN
                           /\ answer(500, <<>>)
                           /\ UNCHANGED events
                         ELSE
                           /\ events' = Append(events,
                                [type |-> "subscription_registered", userKey |-> userKey,
                                 origin |-> origin, userId |-> userId])
                           /\ answer(200, [success |-> TRUE, userKey |-> userKey])
  /\ UNCHANGED << notifications, pushed >>
  /\ Passed(ClassOf(last'.route))

\* ------------------------------------------------ DELETE /subscriptions/:userKey
\* The user keys a caller presents: those in the store and one that is not.
UserKeyInputs == DOMAIN subscriptions \cup {UnknownUserKey}

\* Object.values(permissions || {}).some(p => p?.granted)
hasActivePermissions(userData) ==
  /\ "permissions" \in DOMAIN userData
  /\ \E o \in DOMAIN userData.permissions : userData.permissions[o].granted

\* A revoke that clears the whole permissions map, whoever asks.
RevokedDataEveryOrigin(userData, origin) ==
  LET dropped ==
        IF "permissions" \in DOMAIN userData
        THEN [f \in DOMAIN userData |->
                IF f = "permissions" THEN <<>> ELSE userData[f]]
        ELSE userData
  IN [f \in DOMAIN dropped \cup {"active", "updatedAt"} |->
        IF f = "updatedAt" THEN now
        ELSE IF f = "active" THEN FALSE
        ELSE dropped[f]]

\* userData after the handler removed the origin's permission, recomputed
\* active and refreshed updatedAt.
RevokedData(userData, origin) ==
  LET dropped ==
        IF "permissions" \in DOMAIN userData /\ origin # None
           /\ JsTruthyEntry(userData.permissions, origin)
        THEN [f \in DOMAIN userData |->
                IF f = "permissions"
                THEN [o \in DOMAIN userData.permissions \ {origin} |->
                        userData.permissions[o]]
                ELSE userData[f]]
        ELSE userData
      deactivated ==
        IF ~hasActivePermissions(dropped)
        THEN [f \in DOMAIN dropped \cup {"active"} |->
                IF f = "active" THEN FALSE ELSE dropped[f]]
        ELSE dropped
  IN [f \in DOMAIN deactivated \cup {"updatedAt"} |->
        IF f = "updatedAt" THEN now ELSE deactivated[f]]

\* A revoke that stores a deactivated record under a key it does not find.
RevokeUpserting ==
  /\ Tick
  /\ \E cred \in Accepted, userKey \in UserKeyInputs,
        fault \in {"none", "read", "write", "event"} :
       LET a == validateApiKey(cred, "none")
           origin == a.origin
           answer(st, body) ==
             last' = Exchange("revoke", a, st, userKey, origin, body, "none")
       IN
       IF fault = "read" THEN
         /\ answer(500, <<>>)
         /\ UNCHANGED << subscriptions, events, registrar, revoked >>
       ELSE IF userKey \notin DOMAIN subscriptions THEN
         /\ subscriptions' =
              SetDoc(subscriptions, userKey, [active |-> FALSE, updatedAt |-> now])
         /\ answer(200, [success |-> TRUE])
         /\ UNCHANGED << events, registrar, revoked >>
       ELSE IF fault = "write" THEN
         /\ answer(500, <<>>)
         /\ UNCHANGED << subscriptions, events, registrar, revoked >>
       ELSE
         /\ subscriptions' =
              SetDoc(subscriptions, userKey, RevokedData(subscriptions[userKey], origin))
         /\ IF fault = "event" THEN
              /\ answer(500, <<>>)
              /\ revoked' = revoked \cup {<< userKey, origin, 500 >>}
              /\ UNCHANGED events
            ELSE
              /\ events' = Append(events,
                   [type |-> "subscription_removed", userKey |-> userKey,
                    origin |-> origin])
              /\ revoked' = revoked \cup {<< userKey, origin, 200 >>}
              /\ answer(200, [success |-> TRUE])
  /\ UNCHANGED << notifications, pushed, issued, registrar >>
  /\ Passed(ClassOf(last'.route))

\* A revoke that deletes the document once no granted permission is left.
RevokeDeleting ==
  /\ Tick
  /\ \E cred \in Accepted, userKey \in UserKeyInputs,
        fault \in {"none", "read", "write", "event"} :
       LET a == validateApiKey(cred, "none")
           origin == a.origin
           answer(st, body) ==
             last' = Exchange("revoke", a, st, userKey, origin, body, "none")
       IN
       IF fault = "read" THEN
         /\ answer(500, <<>>)
         /\ UNCHANGED << subscriptions, events, registrar, revoked >>
       ELSE IF userKey \notin DOMAIN subscriptions THEN
         /\ answer(404, <<>>)
         /\ UNCHANGED << subscriptions, events, registrar, revoked >>
       ELSE IF fault = "write" THEN
         /\ answer(500, <<>>)
         /\ UNCHANGED << subscriptions, events, registrar, revoked >>
       ELSE
         /\ subscriptions' =
              IF hasActivePermissions(RevokedData(subscriptions[userKey], origin))
              THEN SetDoc(subscriptions, userKey,
                          RevokedData(subscriptions[userKey], origin))
              ELSE [k \in DOMAIN subscriptions \ {userKey} |-> subscriptions[k]]
         /\ IF fault = "event" THEN
              /\ answer(500, <<>>)
              /\ revoked' = revoked \cup {<< userKey, origin, 500 >>}
              /\ UNCHANGED events
            ELSE
              /\ events' = Append(events,
                   [type |-> "subscription_removed", userKey |-> userKey,
                    origin |-> origin])
              /\ revoked' = revoked \cup {<< userKey, origin, 200 >>}
              /\ answer(200, [success |-> TRUE])
  /\ UNCHANGED << notifications, pushed, issued, registrar >>
  /\ Passed(ClassOf(last'.route))

Revoke ==
  /\ Tick
  /\ \E cred \in Accepted, userKey \in UserKeyInputs,
        fault \in {"none", "read", "write", "event"} :
       LET a == validateApiKey(cred, "none")
           origin == a.origin
           answer(st, body) ==
             last' = Exchange("revoke", a, st, userKey, origin, body, "none")
       IN
       IF fault = "read" THEN
         /\ answer(500, <<>>)
         /\ UNCHANGED << subscriptions, events, registrar, revoked >>
       ELSE IF userKey \notin DOMAIN subscriptions THEN
         /\ answer(404, <<>>)
         /\ UNCHANGED << subscriptions, events, registrar, revoked >>
       ELSE IF fault = "write" THEN
         /\ answer(500, <<>>)
         /\ UNCHANGED << subscriptions, events, registrar, revoked >>
       ELSE
         /\ subscriptions' =
              SetDoc(subscriptions, userKey, RevokedData(subscriptions[userKey], origin))
         /\ IF fault = "event" THEN
              /\ answer(500, <<>>)
              /\ revoked' = revoked \cup {<< userKey, origin, 500 >>}
              /\ UNCHANGED events
            ELSE
              /\ events' = Append(events,
                   [type |-> "subscription_removed", userKey |-> userKey,
                    origin |-> origin])
              /\ revoked' = revoked \cup {<< userKey, origin, 200 >>}
              /\ answer(200, [success |-> TRUE])
  /\ UNCHANGED << notifications, pushed, issued, registrar >>
  /\ Passed(ClassOf(last'.route))

\* ------------------------------------- GET /subscriptions/permissions/:userKey
\* permissions && origin && permissions[origin] && permissions[origin].granted
hasPermission(userData, origin) ==
  /\ "permissions" \in DOMAIN userData
  /\ origin # None
  /\ origin \in DOMAIN userData.permissions
  /\ userData.permissions[origin].granted

\* The body of the 200 response.
PermissionsBody(userData, userKey, origin) ==
  [userKey |-> userKey, origin |-> origin,
   hasPermission |-> hasPermission(userData, origin),
   active |-> IF "active" \in DOMAIN userData THEN userData.active ELSE FALSE]

Permissions ==
  /\ Tick
  /\ \E cred \in Accepted, userKey \in UserKeyInputs, fault \in {"none", "read"} :
       LET a == validateApiKey(cred, "none")
           origin == a.origin
           answer(st, body) ==
             last' = Exchange("permissions", a, st, userKey, origin, body, "none")
       IN
       IF fault = "read" THEN answer(500, <<>>)
       ELSE IF userKey \notin DOMAIN subscriptions THEN answer(404, <<>>)
       ELSE answer(200, PermissionsBody(subscriptions[userKey], userKey, origin))
  /\ UNCHANGED << subscriptions, notifications, events, pushed, issued, registrar, revoked >>
  /\ Passed(ClassOf(last'.route))

\* ------------------------------------------------------ POST /subscriptions/send
\* What a delivery provider answers: it accepts the message, or rejects it
\* with messaging/registration-token-not-registered, or fails otherwise.
ProviderOutcomes == {"accepted", "tokenInvalid", "failed"}

\* One call of a delivery provider.
ProviderCall(transport, target, data, outcome) ==
  [transport |-> transport, target |-> target, data |-> data, outcome |-> outcome]

\* A transport selection that knows cloud push only.
ControllerTransportCloudOnly(sub) ==
  IF "fcmToken" \in DOMAIN sub THEN "fcm" ELSE "none"

\* The transport sendPushNotification picks for a stored subscription.
ControllerTransport(sub) ==
  IF "fcmToken" \in DOMAIN sub THEN "fcm"
  ELSE IF "endpoint" \in DOMAIN sub /\ "keys" \in DOMAIN sub THEN "webpush"
  ELSE "none"

\* A handler that calls the provider a second time when the first call fails.
SubsSendWithRetry ==
  /\ Tick
  /\ \E cred \in Accepted, userId \in UserIds \cup {None},
        origin \in TenantOrigins \cup {None} :
       LET a == validateApiKey(cred, "none")
           userKey == ControllerUserKey(userId, origin)
           answer(st, body, provider) ==
             last' = Exchange("subsSend", a, st, userKey, origin, body, provider)
       IN
       IF userId = None \/ origin = None THEN
         /\ last' = Exchange("subsSend", a, 400, UnknownUserKey, origin, <<>>, "none")
         /\ UNCHANGED pushed
       ELSE
         \E fault \in {"none", "read"} :
           IF fault = "read" THEN
             \* the await is outside the try: the handler's promise rejects.
             \* Express 4 ignores it and no response is sent (status 0);
             \* Express 5 passes it to errorHandler, which answers 500.
             /\ \E st \in {0, 500} : answer(st, <<>>, "none")
             /\ UNCHANGED pushed
           ELSE IF userKey \notin DOMAIN subscriptions THEN
             /\ answer(404, <<>>, "none")
             /\ UNCHANGED pushed
           ELSE
             LET sub == subscriptions[userKey]
                 transport == ControllerTransport(sub)
             IN
             IF transport = "none" THEN
               /\ answer(400, <<>>, "none")
               /\ UNCHANGED pushed
             ELSE
               \E outcome \in ProviderOutcomes :
                 LET call == ProviderCall(transport,
                                   IF transport = "fcm" THEN sub.fcmToken ELSE sub.endpoint,
                                   <<>>, outcome)
                 IN
                 /\ pushed' = IF outcome = "accepted" THEN Append(pushed, call)
                              ELSE pushed \o << call, call >>
                 /\ IF outcome = "accepted"
                    THEN answer(200, [success |-> TRUE,
                                      method |-> IF transport = "fcm" THEN "FCM" ELSE "WebPush"],
                                transport)
                    ELSE answer(500, <<>>, transport)
  /\ UNCHANGED << subscriptions, notifications, events, issued, registrar, revoked >>
  /\ Passed(ClassOf(last'.route))

SubsSend ==
  /\ Tick
  /\ \E cred \in Accepted, userId \in UserIds \cup {None},
        origin \in TenantOrigins \cup {None} :
       LET a == validateApiKey(cred, "none")
           userKey == ControllerUserKey(userId, origin)
           answer(st, body, provider) ==
             last' = Exchange("subsSend", a, st, userKey, origin, body, provider)
       IN
       IF userId = None \/ origin = None THEN
         /\ last' = Exchange("subsSend", a, 400, UnknownUserKey, origin, <<>>, "none")
         /\ UNCHANGED pushed
       ELSE
         \E fault \in {"none", "read"} :
           IF fault = "read" THEN
             \* the await is outside the try: the handler's promise rejects.
             \* Express 4 ignores it and no response is sent (status 0);
             \* Express 5 passes it to errorHandler, which answers 500.
             /\ \E st \in {0, 500} : answer(st, <<>>, "none")
             /\ UNCHANGED pushed
           ELSE IF userKey \notin DOMAIN subscriptions THEN
             /\ answer(404, <<>>, "none")
             /\ UNCHANGED pushed
           ELSE
             LET sub == subscriptions[userKey]
                 transport == ControllerTransport(sub)
             IN
             IF transport = "none" THEN
               /\ answer(400, <<>>, "none")
               /\ UNCHANGED pushed
             ELSE
               \E outcome \in ProviderOutcomes :
                 /\ pushed' = Append(pushed,
                      ProviderCall(transport,
                                   IF transport = "fcm" THEN sub.fcmToken ELSE sub.endpoint,
                                   <<>>, outcome))
                 /\ IF outcome = "accepted"
                    THEN answer(200, [success |-> TRUE,
                                      method |-> IF transport = "fcm" THEN "FCM" ELSE "WebPush"],
                                transport)
                    ELSE answer(500, <<>>, transport)
  /\ UNCHANGED << subscriptions, notifications, events, issued, registrar, revoked >>
  /\ Passed(ClassOf(last'.route))

\* ------------------------------------------------------ POST /notifications/send
\* The value of req.get('Origin') || req.headers['host']: chosen by the
\* caller; None when the request carries neither header.
HeaderOrigins == TenantOrigins \cup {Constructor, None}

\* !userData.permissions?.[origin || ''] is false, i.e. the request passes
\* the permission check.
PermissionEntryFound(userData, origin) ==
  /\ "permissions" \in DOMAIN userData
  /\ JsTruthyEntry(userData.permissions, origin)

\* uuidv4(): an identifier no other attempt gets; the tick of the request.
uuidv4 == now

\* notification.data of the request body: absent, or holding keys named
\* like the two the server sets.
NotificationData == { <<>>, [messageId |-> 0, origin |-> Constructor] }

\* data: { ...notification.data, origin, messageId }: the server's values
\* come after the spread and win.
PayloadData(callerData, origin, messageId) ==
  [f \in DOMAIN callerData \cup {"origin", "messageId"} |->
     IF f = "origin" THEN origin
     ELSE IF f = "messageId" THEN messageId
     ELSE callerData[f]]

\* A handler that deletes the subscription whose token FCM reports invalid.
NotifSendPruning ==
  /\ Tick
  /\ \E cred \in Accepted, valid \in BOOLEAN :
       LET a == validateApiKey(cred, "none") IN
       IF ~valid THEN
         /\ last' = Exchange("notifSend", a, 400, UnknownUserKey, None, <<>>, "none")
         /\ UNCHANGED << subscriptions, notifications, pushed >>
       ELSE
         \E userKey \in UserKeyInputs, origin \in HeaderOrigins,
            fault \in {"none", "read", "audit"} :
           LET answer(st, body, provider) ==
                 last' = Exchange("notifSend", a, st, userKey, origin, body, provider)
               messageId == uuidv4
           IN
           IF origin = None \/ fault = "read" THEN
             /\ answer(500, <<>>, "none")
             /\ UNCHANGED << subscriptions, notifications, pushed >>
           ELSE IF userKey \notin DOMAIN subscriptions THEN
             /\ answer(404, <<>>, "none")
             /\ UNCHANGED << subscriptions, notifications, pushed >>
           ELSE IF ~PermissionEntryFound(subscriptions[userKey], origin) THEN
             /\ answer(403, <<>>, "none")
             /\ UNCHANGED << subscriptions, notifications, pushed >>
           ELSE IF "fcmToken" \notin DOMAIN subscriptions[userKey] THEN
             /\ answer(400, <<>>, "none")
             /\ UNCHANGED << subscriptions, notifications, pushed >>
           ELSE
             \E outcome \in ProviderOutcomes, callerData \in NotificationData :
               /\ pushed' = Append(pushed,
                    ProviderCall("fcm", subscriptions[userKey].fcmToken,
                                 PayloadData(callerData, origin, messageId), outcome))
               /\ subscriptions' =
                    IF outcome = "tokenInvalid"
                    THEN [k \in DOMAIN subscriptions \ {userKey} |-> subscriptions[k]]
                    ELSE subscriptions
               /\ IF outcome = "tokenInvalid" THEN
                    /\ answer(410, <<>>, "fcm")
                    /\ UNCHANGED notifications
                  ELSE IF outcome = "failed" \/ fault = "audit" THEN
                    /\ answer(500, <<>>, "fcm")
                    /\ UNCHANGED notifications
                  ELSE
                    /\ notifications' =
                         SetDoc(notifications, messageId,
                                [userKey |-> userKey, origin |-> origin, status |-> "sent"])
                    /\ answer(200, [success |-> TRUE, messageId |-> messageId], "fcm")
  /\ UNCHANGED << events, issued, registrar, revoked >>
  /\ Passed(ClassOf(last'.route))

\* A handler that looks at the delivery target before the permission.
NotifSendTargetFirst ==
  /\ Tick
  /\ \E cred \in Accepted, valid \in BOOLEAN :
       LET a == validateApiKey(cred, "none") IN
       IF ~valid THEN
         /\ last' = Exchange("notifSend", a, 400, UnknownUserKey, None, <<>>, "none")
         /\ UNCHANGED << notifications, pushed >>
       ELSE
         \E userKey \in UserKeyInputs, origin \in HeaderOrigins,
            fault \in {"none", "read", "audit"} :
           LET answer(st, body, provider) ==
                 last' = Exchange("notifSend", a, st, userKey, origin, body, provider)
               messageId == uuidv4
           IN
           IF origin = None \/ fault = "read" THEN
             /\ answer(500, <<>>, "none")
             /\ UNCHANGED << notifications, pushed >>
           ELSE IF userKey \notin DOMAIN subscriptions THEN
             /\ answer(404, <<>>, "none")
             /\ UNCHANGED << notifications, pushed >>
           ELSE IF "fcmToken" \notin DOMAIN subscriptions[userKey] THEN
             /\ answer(400, <<>>, "none")
             /\ UNCHANGED << notifications, pushed >>
           ELSE IF ~PermissionEntryFound(subscriptions[userKey], origin) THEN
             /\ answer(403, <<>>, "none")
             /\ UNCHANGED << notifications, pushed >>
           ELSE
             \E outcome \in ProviderOutcomes, callerData \in NotificationData :
               /\ pushed' = Append(pushed,
                    ProviderCall("fcm", subscriptions[userKey].fcmToken,
                                 PayloadData(callerData, origin, messageId), outcome))
               /\ IF outcome = "tokenInvalid" THEN
                    /\ answer(410, <<>>, "fcm")
                    /\ UNCHANGED notifications
                  ELSE IF outcome = "failed" \/ fault = "audit" THEN
                    /\ answer(500, <<>>, "fcm")
                    /\ UNCHANGED notifications
                  ELSE
                    /\ notifications' =
                         SetDoc(notifications, messageId,
                                [userKey |-> userKey, origin |-> origin, status |-> "sent"])
                    /\ answer(200, [success |-> TRUE, messageId |-> messageId], "fcm")
  /\ UNCHANGED << subscriptions, events, issued, registrar, revoked >>
  /\ Passed(ClassOf(last'.route))

\* A handler that answers 403 for a record it does not find, as for one
\* without a permission entry.
NotifSendConsentFirst ==
  /\ Tick
  /\ \E cred \in Accepted, valid \in BOOLEAN :
       LET a == validateApiKey(cred, "none") IN
       IF ~valid THEN
         /\ last' = Exchange("notifSend", a, 400, UnknownUserKey, None, <<>>, "none")
         /\ UNCHANGED << notifications, pushed >>
       ELSE
         \E userKey \in UserKeyInputs, origin \in HeaderOrigins,
            fault \in {"none", "read", "audit"} :
           LET answer(st, body, provider) ==
                 last' = Exchange("notifSend", a, st, userKey, origin, body, provider)
               messageId == uuidv4
           IN
           IF origin = None \/ fault = "read" THEN
             /\ answer(500, <<>>, "none")
             /\ UNCHANGED << notifications, pushed >>
           ELSE IF \/ userKey \notin DOMAIN subscriptions
                   \/ ~PermissionEntryFound(subscriptions[userKey], origin) THEN
             /\ answer(403, <<>>, "none")
             /\ UNCHANGED << notifications, pushed >>
           ELSE IF "fcmToken" \notin DOMAIN subscriptions[userKey] THEN
             /\ answer(400, <<>>, "none")
             /\ UNCHANGED << notifications, pushed >>
           ELSE
             \E outcome \in ProviderOutcomes, callerData \in NotificationData :
               /\ pushed' = Append(pushed,
                    ProviderCall("fcm", subscriptions[userKey].fcmToken,
                                 PayloadData(callerData, origin, messageId), outcome))
               /\ IF outcome = "tokenInvalid" THEN
                    /\ answer(410, <<>>, "fcm")
                    /\ UNCHANGED notifications
                  ELSE IF outcome = "failed" \/ fault = "audit" THEN
                    /\ answer(500, <<>>, "fcm")
                    /\ UNCHANGED notifications
                  ELSE
                    /\ notifications' =
                         SetDoc(notifications, messageId,
                                [userKey |-> userKey, origin |-> origin, status |-> "sent"])
                    /\ answer(200, [success |-> TRUE, messageId |-> messageId], "fcm")
  /\ UNCHANGED << subscriptions, events, issued, registrar, revoked >>
  /\ Passed(ClassOf(last'.route))

NotifSend ==
  /\ Tick
  /\ \E cred \in Accepted, valid \in BOOLEAN :
       LET a == validateApiKey(cred, "none") IN
       IF ~valid THEN
         /\ last' = Exchange("notifSend", a, 400, UnknownUserKey, None, <<>>, "none")
         /\ UNCHANGED << notifications, pushed >>
       ELSE
         \E userKey \in UserKeyInputs, origin \in HeaderOrigins,
            fault \in {"none", "read", "audit"} :
           LET answer(st, body, provider) ==
                 last' = Exchange("notifSend", a, st, userKey, origin, body, provider)
               messageId == uuidv4
           IN
           IF origin = None \/ fault = "read" THEN
             /\ answer(500, <<>>, "none")
             /\ UNCHANGED << notifications, pushed >>
           ELSE IF userKey \notin DOMAIN subscriptions THEN
             /\ answer(404, <<>>, "none")
             /\ UNCHANGED << notifications, pushed >>
           ELSE IF ~PermissionEntryFound(subscriptions[userKey], origin) THEN
             /\ answer(403, <<>>, "none")
             /\ UNCHANGED << notifications, pushed >>
           ELSE IF "fcmToken" \notin DOMAIN subscriptions[userKey] THEN
             /\ answer(400, <<>>, "none")
             /\ UNCHANGED << notifications, pushed >>
           ELSE
             \E outcome \in ProviderOutcomes, callerData \in NotificationData :
               /\ pushed' = Append(pushed,
                    ProviderCall("fcm", subscriptions[userKey].fcmToken,
                                 PayloadData(callerData, origin, messageId), outcome))
               /\ IF outcome = "tokenInvalid" THEN
                    /\ answer(410, <<>>, "fcm")
                    /\ UNCHANGED notifications
                  ELSE IF outcome = "failed" \/ fault = "audit" THEN
                    /\ answer(500, <<>>, "fcm")
                    /\ UNCHANGED notifications
                  ELSE
                    /\ notifications' =
                         SetDoc(notifications, messageId,
                                [userKey |-> userKey, origin |-> origin, status |-> "sent"])
                    /\ answer(200, [success |-> TRUE, messageId |-> messageId], "fcm")
  /\ UNCHANGED << subscriptions, events, issued, registrar, revoked >>
  /\ Passed(ClassOf(last'.route))

\* ------------------------------------------- GET /notifications/status/:messageId
\* A lookup that answers with the origin of the caller instead of the origin
\* in the document.
StatusOfCaller ==
  /\ Tick
  /\ \E cred \in Accepted, messageId \in DOMAIN notifications \cup {0},
        fault \in {"none", "read"} :
       LET a == validateApiKey(cred, "none")
           answer(st, body) ==
             last' = Exchange("status", a, st, UnknownUserKey, None, body, "none")
       IN
       IF fault = "read" THEN answer(500, <<>>)
       ELSE IF messageId \notin DOMAIN notifications THEN
         answer(404, [messageId |-> messageId])
       ELSE
         answer(200, [messageId |-> messageId,
                      status |-> notifications[messageId].status,
                      origin |-> a.origin])
  /\ UNCHANGED << subscriptions, notifications, events, pushed, issued, registrar, revoked >>
  /\ Passed(ClassOf(last'.route))

Status ==
  /\ Tick
  /\ \E cred \in Accepted, messageId \in DOMAIN notifications \cup {0},
        fault \in {"none", "read"} :
       LET a == validateApiKey(cred, "none")
           answer(st, body) ==
             last' = Exchange("status", a, st, UnknownUserKey, None, body, "none")
       IN
       IF fault = "read" THEN answer(500, <<>>)
       ELSE IF messageId \notin DOMAIN notifications THEN
         answer(404, [messageId |-> messageId])
       ELSE
         answer(200, [messageId |-> messageId,
                      status |-> notifications[messageId].status,
                      origin |-> notifications[messageId].origin])
  /\ UNCHANGED << subscriptions, notifications, events, pushed, issued, registrar, revoked >>
  /\ Passed(ClassOf(last'.route))

Next ==
  \/ Unauthorized
  \/ RegisterController
  \/ RegisterInline
  \/ Revoke
  \/ Permissions
  \/ SubsSend
  \/ NotifSend
  \/ Status

Spec == Init /\ [][Next]_vars

\* --------------------------------------------------- concurrent registration
\* Two POST /subscriptions/register of one tenant for the same userId are
\* being handled at the same time, both by the controller or both by the
\* handler of the route file.  Each await of a handler is a step of its own;
\* the steps of the two requests interleave in any order.  The store calls
\* answer.
Handlers == {"controller", "inline"}
Requests == {1, 2}

\* The second delivery target a client can present.
FcmEndpoint3 == [prefix |-> FcmPrefix, tail |-> "tok3"]

\* The user key a handler derives.
RaceUserKey(r) ==
  IF r.handler = "controller" THEN ControllerUserKey(r.userId, r.origin)
  ELSE generateUserKey(r.userId, r.origin)

\* isDev of the handler of the route file.
RaceDev(r) ==
  /\ r.handler = "inline"
  /\ nodeEnv # "production"
  /\ validateApiKey(r.cred, "none").environment = "development"

InitRace ==
  /\ Start
  /\ horizon = MaxTime
  /\ burst = TRUE
  /\ \E cred \in Accepted, handler \in Handlers, userId \in UserIds,
        tails \in {"tok2", "tok3"} \X {"tok2", "tok3"} :
       LET a == validateApiKey(cred, "none")
           request(n) ==
             [handler |-> handler, cred |-> cred, userId |-> userId,
              origin |-> a.origin,
              endpoint |-> [prefix |-> FcmPrefix, tail |-> tails[n]],
              existing |-> <<>>,
              pc |-> IF handler = "controller" THEN "write"
                     ELSE IF nodeEnv # "production" /\ a.environment = "development"
                     THEN "skip" ELSE "read"]
       IN
       /\ inflight = [n \in Requests |-> request(n)]
       /\ hits = (keyGenerator(cred) :>
                    [c \in Classes |-> IF c = "subscriptions" THEN 2 ELSE 0])

\* The response of a request that has finished.
RaceAnswer(r, status) ==
  Exchange(IF r.handler = "controller" THEN "register" ELSE "registerInline",
           validateApiKey(r.cred, "none"), status, RaceUserKey(r), r.origin,
           [success |-> TRUE, userKey |-> RaceUserKey(r)], "none")

RaceStep(n, pc, existing) ==
  inflight' = [inflight EXCEPT ![n].pc = pc, ![n].existing = existing]

RaceFrame == UNCHANGED << nodeEnv, now, horizon, burst, hits, notifications, pushed >>

\* isDev: the handler answers 201 and leaves the store alone.
RaceSkip ==
  \E n \in DOMAIN inflight :
    LET r == inflight[n] IN
    /\ r.pc = "skip"
    /\ RaceStep(n, "done", <<>>)
    /\ issued' = issued \cup {<< r.userId, r.origin, RaceUserKey(r) >>}
    /\ last' = RaceAnswer(r, 201)
    /\ UNCHANGED << subscriptions, events, registrar, revoked >>
    /\ RaceFrame

\* existingDoc = await db.collection('subscriptions').doc(userKey).get()
RaceRead ==
  \E n \in DOMAIN inflight :
    LET r == inflight[n] IN
    /\ r.pc = "read"
    /\ RaceStep(n, "write",
                IF RaceUserKey(r) \in DOMAIN subscriptions
                THEN subscriptions[RaceUserKey(r)] ELSE <<>>)
    /\ UNCHANGED << subscriptions, events, last, issued, registrar, revoked >>
    /\ RaceFrame

\* await docRef.set(data) of the controller, followed by its response;
\* await ...doc(userKey).set(subscriptionData) of the route file.
RaceWrite ==
  \E n \in DOMAIN inflight :
    LET r == inflight[n]
        userKey == RaceUserKey(r)
    IN
    /\ r.pc = "write"
    /\ subscriptions' =
         SetDoc(subscriptions, userKey,
                IF r.handler = "controller"
                THEN ControllerData(r.userId, r.origin, "", r.endpoint.tail, <<>>)
                ELSE InlineData(r.existing, userKey, r.userId, r.origin,
                                r.endpoint, FullKeys))
    /\ issued' = issued \cup {<< r.userId, r.origin, userKey >>}
    /\ registrar' = SetDoc(registrar, userKey, r.origin)
    /\ revoked' = {x \in revoked : x[1] # userKey}
    /\ IF r.handler = "controller"
       THEN RaceStep(n, "done", r.existing) /\ last' = RaceAnswer(r, 200)
       ELSE RaceStep(n, "event", r.existing) /\ UNCHANGED last
    /\ UNCHANGED events
    /\ RaceFrame

\* await db.collection('events').add(...), followed by the response.
RaceEvent ==
  \E n \in DOMAIN inflight :
    LET r == inflight[n] IN
    /\ r.pc = "event"
    /\ events' = Append(events,
         [type |-> "subscription_registered", userKey |-> RaceUserKey(r),
          origin |-> r.origin, userId |-> r.userId])
    /\ RaceStep(n, "done", r.existing)
    /\ last' = RaceAnswer(r, 200)
    /\ UNCHANGED << subscriptions, issued, registrar, revoked >>
    /\ RaceFrame

NextRace == RaceSkip \/ RaceRead \/ RaceWrite \/ RaceEvent

SpecRace == InitRace /\ [][NextRace]_vars

\* ------------------------------------------- revoke racing a re-registration
\* After one registration has been handled, a re-registration of the stored
\* (userId, origin) and a DELETE of the same user key arrive and are handled
\* at the same time; each await is a step of its own.  The store calls
\* answer.
InitRevokeRace ==
  /\ Start
  /\ nodeEnv = "production"
  /\ horizon = MaxBurst
  /\ burst = TRUE
  /\ hits = <<>>
  /\ inflight = <<>>

\* What the arrival of a request leaves untouched.
ArriveFrame ==
  UNCHANGED << nodeEnv, now, horizon, burst, subscriptions, notifications,
               events, pushed, last, issued, registrar, revoked >>

\* The re-registration arrives: same userId and origin as the stored record,
\* handled by the handler that wrote it, with a delivery target of its own.
ArriveRegister ==
  /\ now = horizon
  /\ inflight = <<>>
  /\ \E k \in DOMAIN subscriptions, cred \in Accepted, tail \in {"tok2", "tok3"} :
       LET doc == subscriptions[k]
           handler == IF k.scheme = "plain" THEN "controller" ELSE "inline"
       IN
       /\ validateApiKey(cred, "none").origin = doc.origin
       /\ inflight' =
            (1 :> [handler |-> handler, cred |-> cred, userId |-> doc.userId,
                   origin |-> doc.origin,
                   endpoint |-> [prefix |-> FcmPrefix, tail |-> tail],
                   existing |-> <<>>,
                   pc |-> IF handler = "controller" THEN "write" ELSE "read"])
       /\ hits' = Incremented(keyGenerator(cred), "subscriptions")
  /\ ArriveFrame

\* The DELETE /subscriptions/{userKey} arrives, for the user key of the
\* re-registration, from any tenant.
ArriveRevoke ==
  /\ DOMAIN inflight = {1}
  /\ \E cred \in Accepted :
       /\ inflight' = inflight @@
            (2 :> [handler |-> "revoke", cred |-> cred,
                   origin |-> validateApiKey(cred, "none").origin,
                   userKey |-> RaceUserKey(inflight[1]),
                   existing |-> <<>>, pc |-> "get"])
       /\ hits' = Incremented(keyGenerator(cred), "subscriptions")
  /\ ArriveFrame

\* userDoc = await db.collection("subscriptions").doc(userKey).get()
RevokeRead ==
  \E n \in DOMAIN inflight :
    LET r == inflight[n] IN
    /\ r.pc = "get"
    /\ IF r.userKey \in DOMAIN subscriptions
       THEN /\ RaceStep(n, "set", subscriptions[r.userKey])
            /\ UNCHANGED last
       ELSE /\ RaceStep(n, "done", <<>>)
            /\ last' = Exchange("revoke", validateApiKey(r.cred, "none"), 404,
                                r.userKey, r.origin, <<>>, "none")
    /\ UNCHANGED << subscriptions, events, issued, registrar, revoked >>
    /\ RaceFrame

\* await db.collection("subscriptions").doc(userKey).set(userData): the
\* document that was read, with the changes of the handler, is written back
\* as a whole.
RevokeWrite ==
  \E n \in DOMAIN inflight :
    LET r == inflight[n] IN
    /\ r.pc = "set"
    /\ subscriptions' =
         SetDoc(subscriptions, r.userKey, RevokedData(r.existing, r.origin))
    /\ RaceStep(n, "add", r.existing)
    /\ UNCHANGED << events, last, issued, registrar, revoked >>
    /\ RaceFrame

\* await db.collection("events").add(...), followed by the 200.
RevokeEvent ==
  \E n \in DOMAIN inflight :
    LET r == inflight[n] IN
    /\ r.pc = "add"
    /\ events' = Append(events,
         [type |-> "subscription_removed", userKey |-> r.userKey,
          origin |-> r.origin])
    /\ revoked' = revoked \cup {<< r.userKey, r.origin, 200 >>}
    /\ RaceStep(n, "done", r.existing)
    /\ last' = Exchange("revoke", validateApiKey(r.cred, "none"), 200,
                        r.userKey, r.origin, [success |-> TRUE], "none")
    /\ UNCHANGED << subscriptions, issued, registrar >>
    /\ RaceFrame

NextRevokeRace ==
  \/ RegisterController
  \/ RegisterInline
  \/ ArriveRegister
  \/ ArriveRevoke
  \/ RaceRead
  \/ RaceWrite
  \/ RaceEvent
  \/ RevokeRead
  \/ RevokeWrite
  \/ RevokeEvent

SpecRevokeRace == InitRevokeRace /\ [][NextRevokeRace]_vars

\* The production deployment of the later version of routes/subscriptions.ts
\* (register handled in the route file, no /subscriptions/send), three
\* requests deep.
InitInline ==
  /\ Start
  /\ nodeEnv = "production"
  /\ horizon = MaxDeep
  /\ burst = FALSE
  /\ hits = <<>>
  /\ inflight = <<>>

NextInline ==
  \/ Unauthorized
  \/ RegisterInline
  \/ Revoke
  \/ Permissions
  \/ NotifSend
  \/ Status

SpecInline == InitInline /\ [][NextInline]_vars

\* A burst: all requests fall into one window of the limiter, and the window
\* has seen requests before.  The counters of one key stand at a count that
\* requests without effect on the stores reach: lookups of unknown keys and
\* message ids, sends with an invalid body.
Loaded ==
  { [c \in Classes |-> IF c = class THEN n ELSE 0] :
      class \in Classes, n \in {max("subscriptions") - 1, max("subscriptions"),
                                 max("notifications"), max("general")} }

InitBurst ==
  /\ Start
  /\ horizon = MaxBurst
  /\ burst = TRUE
  /\ \/ hits = <<>>
     \/ \E k \in {KeyA, KeyExp}, n \in Loaded : hits = (<< "api", k >> :> n)
  /\ inflight = <<>>

NextBurst == Next \/ RateLimited

SpecBurst == InitBurst /\ [][NextBurst]_vars
SpecDeep == InitDeep /\ [][Next]_vars

\* ------------------------------------------------------------------ claims
\* The subscription the last request addressed, when it is in the store.
LastStored == last.userKey \in DOMAIN subscriptions
LastDoc == subscriptions[last.userKey]

\* The last request ended before its handler looked at the subscription:
\* its store read threw, or it carried no Origin/Host header.
LastAborted == last.status = 500 /\ last.provider = "none"

\* The permissions map of a document, empty when the field is missing.
PermissionsOf(doc) ==
  IF "permissions" \in DOMAIN doc THEN doc.permissions ELSE <<>>

\* C1: tenant isolation on POST /notifications/send.  When the addressed
\* subscription has a permission entry for origin A only and the request is
\* authenticated for another origin, no delivery provider is called and the
\* answer is 403 (or the request was aborted before the check).
C1_TenantIsolation ==
  \A A \in TenantOrigins :
    ( /\ last.route = "notifSend"
      /\ LastStored
      /\ DOMAIN PermissionsOf(LastDoc) = {A}
      /\ last.tenant # A )
    => /\ last.provider = "none"
       /\ last.status = 403 \/ LastAborted

\* C2: no delivery provider is called, on either send route, unless the
\* stored subscription has a granted permission entry for the origin of the
\* authenticated tenant.
C2_ConsentOnEverySend ==
  last.provider # "none"
  => /\ LastStored
     /\ hasPermission(LastDoc, last.tenant)

\* C3: default deny.  A POST /notifications/send to a subscription whose
\* permissions map is empty or missing is answered 403 (unless aborted before
\* the check), calls no provider and writes no notification document.
C3_DefaultDeny ==
  ( /\ last.route = "notifSend"
    /\ LastStored
    /\ DOMAIN PermissionsOf(LastDoc) = {} )
  => /\ last.provider = "none"
     /\ last.status = 403 \/ LastAborted
     /\ (now - 1) \notin DOMAIN notifications

\* C4: revocation monotonicity.  After a DELETE by origin O was answered 200
\* and until the key is registered again: the stored record has no
\* permission entry for O; it is inactive when no granted entry is left; and
\* a send by tenant O to that key calls no provider and is answered 403
\* (unless aborted before the check).
C4_RevocationMonotonic ==
  \A r \in revoked :
    r[3] = 200 =>
      /\ r[1] \in DOMAIN subscriptions
      /\ r[2] \notin DOMAIN PermissionsOf(subscriptions[r[1]])
      /\ ~hasActivePermissions(subscriptions[r[1]])
           => /\ "active" \in DOMAIN subscriptions[r[1]]
              /\ ~subscriptions[r[1]].active
      /\ ( /\ last.route \in {"notifSend", "subsSend"}
           /\ last.userKey = r[1]
           /\ last.tenant = r[2] )
         => /\ last.provider = "none"
            /\ last.status = 403 \/ LastAborted

\* The last request was a registration answered with success.
LastRegistered ==
  /\ last.route \in {"register", "registerInline"}
  /\ last.status \in {200, 201}

\* C5: registration postcondition.  After a registration answered with
\* success for (userId, origin), the record stored under the returned
\* userKey has a granted permission for origin and is active, so that the
\* permission query reports hasPermission and active.
C5_RegistrationPostcondition ==
  LastRegistered
  => /\ LastStored
     /\ hasPermission(LastDoc, last.origin)
     /\ "active" \in DOMAIN LastDoc /\ LastDoc.active
     /\ PermissionsBody(LastDoc, last.userKey, last.origin).hasPermission
     /\ PermissionsBody(LastDoc, last.userKey, last.origin).active

\* The provider accepted the message of the last request.
LastAccepted ==
  /\ last.provider # "none"
  /\ pushed[Len(pushed)].outcome = "accepted"

\* C6: register then send.  When the record was last registered by the
\* tenant for its own origin with an fcmToken and no DELETE touched it since,
\* a POST /notifications/send by that tenant is answered neither 403 nor
\* 404; and when the provider accepts the message the answer is 200 with a
\* messageId under which a notification document with status sent exists.
C6_RegisterThenSend ==
  ( /\ last.route = "notifSend"
    /\ LastStored
    /\ registrar[last.userKey] = last.tenant
    /\ LastDoc.origin = last.tenant
    /\ "fcmToken" \in DOMAIN LastDoc
    /\ ~ \E r \in revoked : r[1] = last.userKey )
  => /\ last.status \notin {403, 404}
     /\ LastAccepted
          => /\ last.status = 200
             /\ "messageId" \in DOMAIN last.body
             /\ last.body.messageId \in DOMAIN notifications
             /\ notifications[last.body.messageId].status = "sent"

\* The fields of a document that hold a delivery target.
TargetFields == {"fcmToken", "endpoint", "keys"}

\* The step is a registration, answered 200, of a key already in the store.
Reregistration(k) ==
  /\ k \in DOMAIN subscriptions
  /\ last'.route \in {"register", "registerInline"}
  /\ last'.status = 200
  /\ last'.userKey = k

\* The step leaves record k its (userId, origin) and its delivery target.
SamePairAndTarget(k) ==
  /\ subscriptions'[k].userId = subscriptions[k].userId
  /\ subscriptions'[k].origin = subscriptions[k].origin
  /\ \A f \in TargetFields :
       /\ (f \in DOMAIN subscriptions'[k]) = (f \in DOMAIN subscriptions[k])
       /\ f \in DOMAIN subscriptions[k] => subscriptions'[k][f] = subscriptions[k][f]

\* C7: idempotent registration.  Registering the same (userId, origin,
\* delivery target) again leaves one record for the pair, whose createdAt is
\* the one written before and whose updatedAt is not earlier.
C7_IdempotentRegistration ==
  [][ \A k \in DOMAIN subscriptions :
        (Reregistration(k) /\ SamePairAndTarget(k))
        => /\ {"createdAt", "updatedAt"} \subseteq DOMAIN subscriptions[k]
           /\ {"createdAt", "updatedAt"} \subseteq DOMAIN subscriptions'[k]
           /\ subscriptions'[k].createdAt = subscriptions[k].createdAt
           /\ subscriptions'[k].updatedAt >= subscriptions[k].updatedAt
           /\ Cardinality({ j \in DOMAIN subscriptions' :
                              /\ subscriptions'[j].userId = subscriptions'[k].userId
                              /\ subscriptions'[j].origin = subscriptions'[k].origin }) = 1
    ]_vars

\* C8: upsert merges delivery targets.  A registration of a key already in
\* the store keeps every delivery-target field the record held.
C8_UpsertKeepsTargets ==
  [][ \A k \in DOMAIN subscriptions :
        Reregistration(k)
        => \A f \in TargetFields :
             f \in DOMAIN subscriptions[k] => f \in DOMAIN subscriptions'[k]
    ]_vars

\* The (userId, origin, userKey) triples derived by one derivation function.
IssuedBy(scheme) == { e \in issued : e[3].scheme = scheme }

\* C9: identity-key determinism and separation, for each of the two
\* derivations: a (userId, origin) pair always gets the same userKey, so no
\* two records of one derivation hold the same pair, and one userId with two
\* different origins gets two different userKeys.
C9_KeyDeterminismSeparation ==
  \A scheme \in {"plain", "sha256"} :
    /\ \A e1, e2 \in IssuedBy(scheme) :
         /\ (e1[1] = e2[1] /\ e1[2] = e2[2]) => e1[3] = e2[3]
         /\ (e1[1] = e2[1] /\ e1[2] # e2[2]) => e1[3] # e2[3]
    /\ \A j, k \in DOMAIN subscriptions :
         ( /\ j.scheme = scheme /\ k.scheme = scheme
           /\ subscriptions[j].userId = subscriptions[k].userId
           /\ subscriptions[j].origin = subscriptions[k].origin )
         => j = k

\* One derivation has derived keys for one userId under two origins, and
\* both records are in the store.
C9_Witness ==
  \E e1, e2 \in issued :
    /\ e1[3].scheme = e2[3].scheme
    /\ e1[1] = e2[1] /\ e1[2] # e2[2]
    /\ {e1[3], e2[3]} \subseteq DOMAIN subscriptions
    /\ subscriptions[e1[3]].origin # subscriptions[e2[3]].origin

\* C10: separator safety.  Two distinct (userId, origin) pairs never get the
\* same userKey (are never mapped to the same string before hashing), so they
\* never share one subscription record.
C10_SeparatorSafety ==
  \A e1, e2 \in issued :
    e1[3] = e2[3] => (e1[1] = e2[1] /\ e1[2] = e2[2])

\* C11: registration is bound to the authenticated tenant.  The record a
\* registration answered 200 has written holds the origin of the presented
\* API key, and its userKey was derived from that origin; so no tenant
\* creates or overwrites the record of another origin.
C11_RegistrationBoundToTenant ==
  ( /\ last.route \in {"register", "registerInline"}
    /\ last.status = 200 )
  => /\ LastStored
     /\ LastDoc.origin = last.tenant
     /\ \E e \in issued : e[3] = last.userKey /\ e[2] = last.tenant

\* The key of an Authorization header is one the claim lets through at time
\* t: the development sentinel outside production, or a key of at least 32
\* characters that is in the key store, active and not past expiresAt.
KeyAcceptable(cred, t) ==
  /\ cred.scheme = "Bearer"
  /\ \/ nodeEnv # "production" /\ cred.key = DevKey
     \/ /\ Len(cred.key) >= 32
        /\ cred.key \in DOMAIN apiKeys
        /\ apiKeys[cred.key].active
        /\ ~ ( /\ "expiresAt" \in DOMAIN apiKeys[cred.key]
               /\ t > apiKeys[cred.key].expiresAt )

\* The first reason, in the order missing, malformed, invalid, deactivated,
\* expired, that applies to a header that is not let through.
FirstReason(cred) ==
  IF cred.scheme # "Bearer" THEN "missing"
  ELSE IF Len(cred.key) < 32 THEN "malformed"
  ELSE IF cred.key \notin DOMAIN apiKeys THEN "invalid"
  ELSE IF ~apiKeys[cred.key].active THEN "deactivated"
  ELSE "expired"

\* The last request was passed on by the middleware to its handler.
LastPassed == last.route \notin {"none", "rejected"}

\* C12: authorization outcome.  A request is passed on to its handler
\* exactly when its key is acceptable; a request that is not is answered 401
\* with the first applicable reason; and a request passed on carries the
\* origin stored with its key.
C12_AuthorizationOutcome ==
  last.route # "none"
  => /\ LastPassed <=> KeyAcceptable(last.cred, now - 1)
     /\ ~LastPassed
          => last.status = 401 /\ last.auth = FirstReason(last.cred)
     /\ LastPassed
          => last.tenant = IF last.cred.key = DevKey THEN DevOrigin
                           ELSE apiKeys[last.cred.key].origin

\* C13: a request whose API key is not acceptable (missing, malformed,
\* invalid, deactivated or expired) has no effect: it leaves the
\* subscriptions, the notification documents and the events as they were,
\* reaches no delivery provider and adds no usage record.
C13_RejectedNoEffect ==
  [][ ~KeyAcceptable(last'.cred, now)
      => /\ UNCHANGED << subscriptions, notifications, events, pushed >>
         /\ last'.provider = "none"
         /\ ~last'.usage
         /\ last'.status \in {401, 500}
    ]_vars

\* A request with an expired key was answered 401 while a subscription was
\* in the store.
C13_Witness ==
  /\ last.route = "rejected"
  /\ last.status = 401
  /\ last.auth = "expired"
  /\ DOMAIN subscriptions # {}

\* C14: the development sentinel key.  With NODE_ENV = production a request
\* carrying it is answered 401 as malformed; and it is passed on to a
\* handler only when NODE_ENV is set to a value other than production.
C14_DevSentinel ==
  ( /\ last.route # "none"
    /\ last.cred = Bearer(DevKey) )
  => /\ nodeEnv = "production"
          => /\ last.route = "rejected"
             /\ last.status = 401
             /\ last.auth = "malformed"
     /\ LastPassed => nodeEnv \notin {"production", Unset}

\* C15: when the usage-audit write of a request with an acceptable key
\* fails, the request is still passed on to its handler and is not answered
\* by the middleware.
C15_UsageAuditFailure ==
  last.auth = "usageError"
  => /\ LastPassed
     /\ ~ (last.route = "rejected" /\ last.status = 500)

\* The last request was a send that got as far as choosing a transport: the
\* subscription was found and the request was not ended before or by the
\* consent check.
LastChoseTransport ==
  /\ last.route \in {"notifSend", "subsSend"}
  /\ LastStored
  /\ last.status \notin {0, 403, 404}
  /\ ~LastAborted

\* The stored subscription holds a cloud-push token.
HasCloudToken(doc) == "fcmToken" \in DOMAIN doc

\* The stored subscription holds complete Web Push fields.
HasWebPush(doc) ==
  /\ {"endpoint", "keys"} \subseteq DOMAIN doc
  /\ {"p256dh", "auth"} \subseteq DOMAIN doc.keys

\* C16: transport selection.  A send that chooses a transport delivers
\* through cloud push when the subscription holds an fcmToken (with or
\* without Web Push fields), and through Web Push when it holds complete
\* Web Push fields only.
C16_TransportSelection ==
  LastChoseTransport
  => /\ HasCloudToken(LastDoc) => last.provider = "fcm"
     /\ (~HasCloudToken(LastDoc) /\ HasWebPush(LastDoc))
          => last.provider = "webpush"

\* A send to a subscription with Web Push fields only went to Web Push.
C16_Witness ==
  /\ LastChoseTransport
  /\ ~HasCloudToken(LastDoc) /\ HasWebPush(LastDoc)
  /\ last.provider = "webpush"
  /\ pushed[Len(pushed)].transport = "webpush"

\* C17: one attempt, one transport, one outcome.  A request hands at most
\* one message to a delivery provider, whether the provider accepts it or
\* not, and the earlier calls stay as they were.
C17_OneAttempt ==
  [][ /\ Len(pushed') <= Len(pushed) + 1
      /\ SubSeq(pushed', 1, Len(pushed)) = pushed
      /\ Len(pushed') = Len(pushed) + 1
           => /\ last'.route \in {"notifSend", "subsSend"}
              /\ last'.provider = pushed'[Len(pushed')].transport
    ]_vars

\* A cloud-push call failed, the request was answered 500 and it is the
\* only call made.
C17_Witness ==
  /\ last.route \in {"notifSend", "subsSend"}
  /\ last.provider = "fcm"
  /\ last.status = 500
  /\ Len(pushed) = 1
  /\ pushed[1].outcome = "failed"

\* The delivery provider was called by the last request and answered with
\* the given outcome.
LastOutcome(outcome) ==
  /\ last.route \in {"notifSend", "subsSend"}
  /\ last.provider # "none"
  /\ pushed[Len(pushed)].outcome = outcome

C19_SendKeepsSubscriptions ==
  [][ last'.route \in {"notifSend", "subsSend"}
      => subscriptions' = subscriptions
    ]_vars

\* A send was answered 410 for an invalid token and the record still holds
\* that token.
C19_Witness ==
  /\ LastOutcome("tokenInvalid")
  /\ last.status = 410
  /\ LastStored
  /\ LastDoc.fcmToken = pushed[Len(pushed)].target

\* The last POST /notifications/send had a valid body and an Origin or Host
\* header, and its read of the subscription did not throw: it got as far as
\* the subscription lookup.
LastLookedUp ==
  /\ last.route = "notifSend"
  /\ last.origin # None
  /\ ~LastAborted

\* C20: dispatch ordering on POST /notifications/send.  The steps are
\* passed in the order authorize, lookup, consent check, delivery-target
\* check, provider call, audit record, and the request stops at the first
\* step that fails: an unknown userKey is answered 404; a record that fails
\* the handler's permission check is answered 403 whatever its delivery
\* target; the provider is called only for a request that was authorized
\* and whose record was found, passed the permission check and holds a
\* token; and the audit record is written only after the provider accepted.
C20_DispatchOrdering ==
  LastLookedUp
  => /\ last.auth \in {"ok", "dev"}
     /\ ~LastStored => last.status = 404 /\ last.provider = "none"
     /\ (LastStored /\ ~PermissionEntryFound(LastDoc, last.origin))
          => last.status = 403 /\ last.provider = "none"
     /\ ( /\ LastStored
          /\ PermissionEntryFound(LastDoc, last.origin)
          /\ ~HasCloudToken(LastDoc) )
          => last.status = 400 /\ last.provider = "none"
     /\ last.provider # "none"
          => /\ LastStored
             /\ PermissionEntryFound(LastDoc, last.origin)
             /\ HasCloudToken(LastDoc)
     /\ (now - 1) \in DOMAIN notifications
          => last.status = 200 /\ LastOutcome("accepted")

\* A record with no cloud-push token and no permission entry was answered
\* 403: the consent check came before the delivery-target check.
C20_Witness ==
  /\ LastLookedUp
  /\ LastStored
  /\ ~HasCloudToken(LastDoc)
  /\ ~PermissionEntryFound(LastDoc, last.origin)
  /\ last.status = 403

\* The last request was a send, with a valid body, to a user key under which
\* no subscription is stored, and the handler's read of the store answered.
LastSentToUnknown ==
  /\ ~LastStored
  /\ \/ LastLookedUp
     \/ /\ last.route = "subsSend"
        /\ last.userKey # UnknownUserKey
        /\ last.status # 0
        /\ ~LastAborted

\* C21: a send to a userKey for which no subscription exists is answered
\* 404, writes no notification document and calls no provider.
C21_UnknownKeyNotFound ==
  [][ LastSentToUnknown'
      => /\ last'.status = 404
         /\ last'.provider = "none"
         /\ UNCHANGED << notifications, pushed >>
    ]_vars

\* A POST /notifications/send to an unknown userKey was answered 404 while
\* another subscription was in the store.
C21_Witness ==
  /\ LastSentToUnknown
  /\ last.route = "notifSend"
  /\ last.status = 404
  /\ DOMAIN subscriptions # {}

\* The last request was a POST /notifications/send that got past the lookup
\* and ended at the consent check or at the provider without a 200.
LastSendFailed ==
  /\ LastLookedUp
  /\ LastStored
  /\ last.status \in {403, 410, 500}

\* C22: a POST /notifications/send that ends at a failed step leaves a
\* notification document with status "failed" under the message id of the
\* attempt, and answers with the status of the step that failed: 403 from
\* the consent check, 410 or 500 from the provider.
C22_FailedSendRecorded ==
  LastSendFailed
  => /\ (now - 1) \in DOMAIN notifications
     /\ notifications[now - 1].status = "failed"
     /\ last.provider = "none" => last.status = 403
     /\ LastOutcome("tokenInvalid") => last.status = 410
     /\ LastOutcome("failed") => last.status = 500

\* C23: a failure of the notifications write does not change the answer.
\* Whenever the provider accepted the message the caller gets 200 with the
\* messageId, and a provider failure is answered with its own 410 or 500.
C23_AuditFailureSwallowed ==
  last.route = "notifSend"
  => /\ LastOutcome("accepted")
        => /\ last.status = 200
           /\ last.body = [success |-> TRUE, messageId |-> now - 1]
     /\ LastOutcome("tokenInvalid") => last.status = 410
     /\ LastOutcome("failed") => last.status = 500

\* C24: a DELETE /subscriptions/{userKey} whose store calls answer is
\* answered 404 when no record is stored under the userKey, and then the
\* subscriptions collection and the events log are left as they were; it is
\* answered 200 when a record is stored.  A store call that throws is
\* answered 500, and on an unknown key it changes nothing either.
C24_RevokeUnknownKey ==
  [][ last'.route = "revoke"
      => IF last'.userKey \in DOMAIN subscriptions
         THEN last'.status \in {200, 500}
         ELSE /\ last'.status \in {404, 500}
              /\ UNCHANGED << subscriptions, events >>
    ]_vars

\* A revoke of an unknown userKey was answered 404 while another record was
\* in the store.
C24_Witness ==
  /\ last.route = "revoke"
  /\ last.auth = "ok"
  /\ last.status = 404
  /\ ~LastStored
  /\ DOMAIN subscriptions # {}

\* C25: soft revocation.  No request removes a document of the
\* subscriptions collection: a userKey that is in the store is in the store
\* after every later step.
C25_SoftRevocation ==
  [][ DOMAIN subscriptions \subseteq DOMAIN subscriptions' ]_vars

\* A revoke answered 200 took the last granted permission away, and the
\* record is still in the store, deactivated.
C25_Witness ==
  /\ last.route = "revoke"
  /\ last.status = 200
  /\ LastStored
  /\ ~hasActivePermissions(LastDoc)
  /\ LastDoc.active = FALSE
  /\ << last.userKey, last.tenant >> \in { << i[3], i[2] >> : i \in issued }

\* The limiter key and the endpoint class of the request a step handles.  A
\* request turned away by validateApiKey can be of any class; its class is
\* the one the limiter counted it under.
StepKey == keyGenerator(last'.cred)
StepClass ==
  IF last'.route = "limited" THEN last'.class
  ELSE IF last'.route = "rejected"
  THEN CHOOSE c \in Classes :
         Counted(hits', StepKey, c) = Counted(hits, StepKey, c) + 1
  ELSE ClassOf(last'.route)

\* The stores and the provider log are as they were before the step.
NoEffect == UNCHANGED << subscriptions, notifications, events, pushed >>

\* C26: admission control comes before authorization and is keyed by the
\* API key presented.  Within one window, a request whose limiter key has
\* used up the limit of the request's class is answered 429 without
\* validateApiKey having run (no key lookup, no usage record) and without
\* any effect; and a request changes the counter of its own limiter key
\* only, so a key of the same tenant keeps its own quota.
C26_AdmissionBeforeAuthorization ==
  [][ /\ totalHits(hits, StepKey) >= max(StepClass)
         => /\ last'.status = 429
            /\ last'.auth = ""
            /\ ~last'.usage
            /\ NoEffect
      /\ last'.status = 429 => last'.auth = "" /\ ~last'.usage /\ NoEffect
      /\ last'.cred.scheme = "Bearer" => StepKey = << "api", last'.cred.key >>
      /\ \A k \in DOMAIN hits : k # StepKey => k \in DOMAIN hits' /\ hits'[k] = hits[k]
    ]_vars

\* The counter of KeyA stands at the highest limit, so every request with
\* KeyA is turned away, and a request with KeyExp, a key of the same tenant,
\* was passed by the limiter and by validateApiKey and stored a subscription.
C26_Witness ==
  /\ burst
  /\ totalHits(hits, << "api", KeyA >>) >= max("general")
  /\ apiKeys[KeyA].origin = apiKeys[KeyExp].origin
  /\ last.cred = Bearer(KeyExp)
  /\ last.auth = "ok"
  /\ last.usage
  /\ last.status \in {200, 201}
  /\ LastStored

\* C27: per-class limits.  Within one window a request is answered 429
\* exactly when its limiter key has already made as many requests of the
\* request's own class as the class allows: 100 for /notifications/send, 50
\* for the subscription endpoints, 200 for the others.
C27_PerClassLimits ==
  [][ last'.status = 429 <=> Counted(hits, StepKey, StepClass) >= max(StepClass)
    ]_vars

\* C28: permission query and send agree.  When GET
\* /subscriptions/permissions/{userKey} has answered 200 for a tenant, at
\* the same state of the store: if it reported hasPermission = TRUE, a POST
\* /notifications/send of that tenant to the userKey under the tenant's own
\* origin passes the permission check; if it reported FALSE, no POST
\* /notifications/send of that tenant to the userKey passes it, whatever
\* Origin header the request carries.
C28_QueryAgreesWithSend ==
  ( /\ last.route = "permissions"
    /\ last.status = 200 )
  => IF last.body.hasPermission
     THEN PermissionEntryFound(LastDoc, last.tenant)
     ELSE \A origin \in HeaderOrigins \ {None} :
            ~PermissionEntryFound(LastDoc, origin)

\* C30: status lookup matches the audit log.  A POST /notifications/send
\* answered 200 writes, under a message id not in the collection before, a
\* notification document with status "sent" and the origin of the send; no
\* step changes or removes a notification document; and GET
\* /notifications/status/{messageId} whose store read answers returns the
\* status and the origin of the document when one is stored under the
\* message id, and 404 when none is.
C30_StatusMatchesAuditLog ==
  [][ /\ \A m \in DOMAIN notifications :
           m \in DOMAIN notifications' /\ notifications'[m] = notifications[m]
      /\ ( last'.route = "notifSend" /\ last'.status = 200 )
         => /\ last'.body.messageId \notin DOMAIN notifications
            /\ last'.body.messageId \in DOMAIN notifications'
            /\ notifications'[last'.body.messageId].status = "sent"
            /\ notifications'[last'.body.messageId].origin = last'.origin
      /\ ( last'.route = "status" /\ last'.status # 500 )
         => IF last'.body.messageId \in DOMAIN notifications
            THEN /\ last'.status = 200
                 /\ last'.body.status = "sent"
                 /\ last'.body.origin = notifications[last'.body.messageId].origin
            ELSE last'.status = 404
    ]_vars

\* A send was answered 200 with a message id, and a later lookup of that
\* message id by another tenant returned "sent" and the origin of the send.
C30_Witness ==
  /\ last.route = "status"
  /\ last.status = 200
  /\ last.body.status = "sent"
  /\ last.body.messageId \in DOMAIN notifications
  /\ last.body.origin = notifications[last.body.messageId].origin
  /\ last.tenant # last.body.origin
  /\ \E i \in 1..Len(pushed) :
       /\ pushed[i].outcome = "accepted"
       /\ pushed[i].data.messageId = last.body.messageId

\* Both concurrent registrations have been answered.
RaceDone ==
  /\ DOMAIN inflight = Requests
  /\ \A n \in Requests : inflight[n].pc = "done"

\* C29: no lost-create race.  When two first-time registrations of one
\* tenant for the same userId have run concurrently, in any interleaving of
\* their reads and writes, the store holds exactly one record, under the
\* user key of the pair, with a granted permission for the origin, active =
\* TRUE and the delivery target of one of the two requests.
C29_NoLostCreate ==
  RaceDone
  => LET r == inflight[1]
         k == RaceUserKey(r)
     IN
     /\ DOMAIN subscriptions = {k}
     /\ hasPermission(subscriptions[k], r.origin)
     /\ "active" \in DOMAIN subscriptions[k]
     /\ subscriptions[k].active = TRUE
     /\ \E n \in Requests : subscriptions[k].fcmToken = inflight[n].endpoint.tail

\* C31: payload correlation.  Every payload handed to a delivery provider
\* carries in its data section the origin of the request and a messageId
\* that no other attempt carries, also when the caller's notification.data
\* names these keys.
C31_PayloadCorrelation ==
  /\ \A i \in 1..Len(pushed) :
       /\ {"messageId", "origin"} \subseteq DOMAIN pushed[i].data
       /\ pushed[i].data.origin \in HeaderOrigins \ {None}
       /\ pushed[i].data.messageId \in 1..(now - 1)
  /\ \A i, j \in 1..Len(pushed) :
       pushed[j].data.messageId = pushed[i].data.messageId => j = i

\* The step appended exactly one event, of the given type, for the user key
\* and the origin of the request.
AppendedOne(type) ==
  /\ Len(events') = Len(events) + 1
  /\ SubSeq(events', 1, Len(events)) = events
  /\ events'[Len(events')].type = type
  /\ events'[Len(events')].userKey = last'.userKey
  /\ events'[Len(events')].origin = last'.origin

\* C32: consent audit completeness.  A registration answered with success
\* appends exactly one registration event, a revocation answered 200 appends
\* exactly one removal event, each with the user key and the origin of the
\* request; no step changes or removes an event.
C32_ConsentAuditComplete ==
  [][ /\ Len(events') >= Len(events)
      /\ SubSeq(events', 1, Len(events)) = events
      /\ ( last'.route \in {"register", "registerInline"}
           /\ last'.status \in {200, 201} )
         => AppendedOne("subscription_registered")
      /\ ( last'.route = "revoke" /\ last'.status = 200 )
         => AppendedOne("subscription_removed")
    ]_vars

\* The active flag of a document as JavaScript reads it: a missing field is
\* falsy.
ActiveFlag(doc) == "active" \in DOMAIN doc /\ doc.active

\* Every stored record's active flag says whether some permission entry of
\* the record is granted.
ActiveMatchesPermissions ==
  \A k \in DOMAIN subscriptions :
    ActiveFlag(subscriptions[k]) <=> hasActivePermissions(subscriptions[k])

\* C33: in every state each record's active flag equals "some entry of its
\* permissions map has granted = TRUE", and the flag is TRUE in the record a
\* registration answered 200 has just written.
C33_ActiveFlag ==
  /\ ActiveMatchesPermissions
  /\ ( /\ last.route \in {"register", "registerInline"}
       /\ last.status = 200 )
     => LastStored /\ ActiveFlag(LastDoc)

\* The step is the write of a revoke that is being handled concurrently.
RevokeWrites(n) ==
  /\ n \in DOMAIN inflight
  /\ inflight[n].handler = "revoke"
  /\ inflight[n].pc = "set"
  /\ inflight'[n].pc = "add"

\* The fields of a record a revoke may change.
ConsentFields == {"permissions", "active", "updatedAt"}

\* C34: revoke touches only consent state.  The record is the same right
\* after the write of a revoke as right before it in every field but
\* permissions, active and updatedAt, also when a registration of the same
\* key has written between the read and the write of the revoke.
C34_RevokeTouchesOnlyConsent ==
  [][ \A n \in DOMAIN inflight :
        RevokeWrites(n)
        => LET before == subscriptions[inflight[n].userKey]
               after == subscriptions'[inflight[n].userKey]
           IN \A f \in (DOMAIN before \cup DOMAIN after) \ ConsentFields :
                /\ f \in DOMAIN before
                /\ f \in DOMAIN after
                /\ after[f] = before[f]
    ]_vars

\* The step is a DELETE answered 200 on a stored record whose origin is not
\* the origin the request is authenticated for.
RevokeByOther(k) ==
  /\ k \in DOMAIN subscriptions
  /\ last'.route = "revoke"
  /\ last'.status = 200
  /\ last'.userKey = k
  /\ last'.tenant # subscriptions[k].origin

C36_PresenceMeansGranted ==
  \A k \in DOMAIN subscriptions :
    /\ \A o \in DOMAIN PermissionsOf(subscriptions[k]) :
         PermissionsOf(subscriptions[k])[o].granted
    /\ \A origin \in HeaderOrigins \ {None} :
         PermissionEntryFound(subscriptions[k], origin)
           <=> hasPermission(subscriptions[k], origin)

\* C37: audit records are tenant-scoped on read.  GET
\* /notifications/status/{messageId} answers 200 with the record only to a
\* request authenticated for the origin of the record.
C37_StatusTenantScoped ==
  ( /\ last.route = "status"
    /\ last.status = 200 )
  => last.body.origin = last.tenant

\* C38: every request reaches a terminal state.  Every request that has been
\* handled, whatever store or provider call failed on the way, has been
\* answered with one HTTP response.
C38_EveryRequestAnswered ==
  last.route # "none" => last.status # 0

====
